---- MODULE Spec2Model ----
(***************************************************************************)
(* The production-line scheduling and release-date engine of the DPS       *)
(* pipelines (src/pages/5_DPS.py): the East normalizer, the per-line       *)
(* scheduler, the month-window filter and the release planner.             *)
(*                                                                         *)
(* Instants are whole hours counted from 2025-01-01 00:00, calendar dates  *)
(* are whole days counted from 2025-01-01 (day 0, a Wednesday).  The model *)
(* covers the years 2025..2027, none of which is a leap year.              *)
(* An absent value (None, NaN, NaT) is the empty tuple <<>>, a present     *)
(* value v is the one-element tuple <<v>>.                                 *)
(***************************************************************************)
EXTENDS Integers, Sequences, FiniteSets, TLC

VARIABLES
    pc,             \* position in process_east_file
    raw,            \* the melted sheet rows waiting to be processed
    n_in,           \* history: the number of rows of the sheet being processed
    n_items,        \* history: the rows left by the valid-line filter
    n_melt,         \* history: the rows left by the quantity filter
    out,            \* the normalized table `out`
    unique_lines,   \* sorted(out["Line"].unique())
    li,             \* position of the `for line in unique_lines` loop
    line_df,        \* the rows of the current line in date-then-priority order
    idx,            \* rows of line_df already time-stamped
    time_starts,    \* the list time_starts of the scheduling pass
    time_finishes,  \* the list time_finishes of the scheduling pass
    m0,             \* the base month entered in render_east
    month_set,      \* the parameter month_set
    cal_map,        \* the parameter cal_map
    line_dfs,       \* the result: line -> list of output slots
    sheet,          \* West: the rows of the sheet given to process_sheet
    results,        \* West: the processed sheet, None when it is skipped
    sak_result,     \* Sakatama: the returned DataFrame, <<>> when it is empty
    selected_sheets, \* render_east, render_sakatama: the selected sheets not yet read
    combined        \* render_east: combined_line_dfs; render_sakatama: all_dfs

vars == <<pc, raw, n_in, n_items, n_melt, out, unique_lines, li, line_df, idx, time_starts,
          time_finishes, m0, month_set, cal_map, line_dfs, sheet, results,
          sak_result, selected_sheets, combined>>

eastVars == <<raw, n_in, n_items, n_melt, out, unique_lines, li, line_df, idx, time_starts,
              time_finishes, line_dfs>>
westVars == <<sheet, results>>
lineVars == <<unique_lines, li, line_dfs>>
runVars == <<selected_sheets, combined>>

-----------------------------------------------------------------------------
(* Bounds and input domains *)

MaxRows == 3
MaxSheetRows == 2
MaxOrderRows == 4

None == <<>>
Some(v) == <<v>>
Val(o) == o[1]
NotNa(o) == o # None

VALID_LINES == {"AB", "CD", "GH", "JK", "TU", "VW", "XY"}

\* Strings in ascending lexicographic order (Python's str comparison).
StrOrder == <<"A,B", "AB", "CD", "GH", "JK", "TU", "VW", "X1", "X2", "X3", "XY", "ZZ">>

StrRank(s) == CHOOSE i \in 1..Len(StrOrder) : StrOrder[i] = s

\* 2026-01-30 (a Friday) and 2026-01-31.
Dates == {394, 395}
Materials == {"X1", "X2"}
RawLines == {"AB", "CD"}
KgVals == {Some(1)}
QtyVals == {Some(240)}
SpeedVals == {None, Some(0), Some(5), Some(10), Some(0 - 10)}
BaseMonths == {2, 11, 12}

RawRows == [Material : Materials, Line : RawLines, Kg_TU : KgVals,
            Date : Dates, Qty : QtyVals]

\* Sheets that list one material of one line several times, with different
\* or blank Kg_TU cells and different quantities.
KgRows == [Material : {"X1"}, Line : {"AB"}, Kg_TU : {None, Some(1), Some(2)},
           Date : {394}, Qty : {Some(120), Some(240)}]

\* Sheets with anomalies: a line code to be trimmed and upper-cased, an
\* unknown line code, and quantities that are blank or text (None), zero or
\* negative.
AnomalyRows ==
    {[Material |-> "X1", Line |-> " ab", Kg_TU |-> Some(1), Date |-> 394, Qty |-> Some(240)],
     [Material |-> "X2", Line |-> "cd ", Kg_TU |-> Some(1), Date |-> 394, Qty |-> Some(240)],
     [Material |-> "X1", Line |-> "ZZ", Kg_TU |-> Some(1), Date |-> 394, Qty |-> Some(240)],
     [Material |-> "X1", Line |-> " ab", Kg_TU |-> Some(1), Date |-> 395, Qty |-> None],
     [Material |-> "X1", Line |-> " ab", Kg_TU |-> Some(1), Date |-> 395, Qty |-> Some(0)],
     [Material |-> "X2", Line |-> " ab", Kg_TU |-> Some(1), Date |-> 395, Qty |-> Some(0 - 5)]}

\* Sheets of one line with three materials on 2026-01-30 and 2026-02-01, the
\* day between them without production; X3 is not in fg_master_data.
OrderRows ==
    {[Material |-> c[2], Line |-> "AB", Kg_TU |-> Some(1), Date |-> c[1],
      Qty |-> Some(240)] :
        c \in {<<394, "X1">>, <<394, "X3">>, <<396, "X1">>, <<396, "X2">>,
                <<396, "X3">>}}

\* Line AB on 2026-01-10 and, a year later, on 2027-01-31: X1 with 240
\* cartons and X2 with 120 cartons.
ScenarioRows ==
    {[Material |-> "X1", Line |-> "AB", Kg_TU |-> Some(1), Date |-> 374, Qty |-> Some(240)],
     [Material |-> "X2", Line |-> "AB", Kg_TU |-> Some(1), Date |-> 374, Qty |-> Some(120)],
     [Material |-> "X1", Line |-> "AB", Kg_TU |-> Some(1), Date |-> 760, Qty |-> Some(240)],
     [Material |-> "X2", Line |-> "AB", Kg_TU |-> Some(1), Date |-> 760, Qty |-> Some(120)]}

\* Sakatama sheets: the cells of the Production area in reading order, the
\* quantity in tenths of a carton (0, 0.4 or 240.0).
SakCells == {c \in [Material : Materials, Date : Dates, QtyTenths : {0, 4, 2400}] :
                /\ (c.Material = "X1" => c.QtyTenths # 0)
                /\ (c.Material = "X2" => c.QtyTenths # 4)}

\* fg_master_data per sku_code, as process_sakatama_file reads it.
SakMasterRefs == [Materials -> [speed : SpeedVals, kg_cb : KgVals]]

\* West sheets: Time Start is 2026-01-28 06:00 or unparseable, Time_Finish is
\* 19:00 of a day of 2026-01-29 (a Thursday) .. 2026-02-04 or unparseable.
WestRows == [TimeStart : {None, Some(392 * 24 + 6)},
             TimeFinish : {None} \cup {Some(d * 24 + 19) : d \in 393..399}]

SeqsUpTo(S, n) == UNION {[1..k -> S] : k \in 0..n}

\* The sheets of a run on two selected sheets: each lists X1 once, on line AB
\* for East.
EastSheets == {<<r>> : r \in {x \in RawRows : x.Line = "AB" /\ x.Material = "X1"}}
SakSheets == {<<c>> : c \in {x \in SakCells : x.Material = "X1" /\ x.QtyTenths = 2400}}

\* fg_master_data as the join sees it: the speed of each sku_code, the same
\* on every line that lists it; None is a NULL speed, and a sku outside
\* Materials has no row.
MasterRefs == [Materials -> SpeedVals]

\* kg_cb of the fg_master_data rows the East call reads.
MasterKgCb == Some(1)

-----------------------------------------------------------------------------
(* Calendar arithmetic of pandas Timestamps *)

MonthLengths == <<31, 28, 31, 30, 31, 30, 31, 31, 30, 31, 30, 31>>

RECURSIVE MonthFrom(_, _)
MonthFrom(doy, m) ==
    IF doy < MonthLengths[m] THEN m ELSE MonthFrom(doy - MonthLengths[m], m + 1)

RECURSIVE DayFrom(_, _)
DayFrom(doy, m) ==
    IF doy < MonthLengths[m] THEN doy + 1 ELSE DayFrom(doy - MonthLengths[m], m + 1)

DateOf(ts) == ts \div 24
MonthOfDate(d) == MonthFrom(d % 365, 1)
DayOfDate(d) == DayFrom(d % 365, 1)
YearOfDate(d) == 2025 + (d \div 365)
\* Timestamp.weekday(): Monday is 0, Sunday is 6.
Weekday(d) == (d + 2) % 7
MonthOf(ts) == MonthOfDate(DateOf(ts))

-----------------------------------------------------------------------------
(* Sorting *)

\* The positions 1..Len(keys) in ascending order of their integer key, equal
\* keys in their original order.
RECURSIVE SortedIdx(_, _)
SortedIdx(keys, todo) ==
    IF todo = {} THEN <<>>
    ELSE LET i == CHOOSE a \in todo :
                    \A b \in todo : keys[a] < keys[b] \/ (keys[a] = keys[b] /\ a <= b)
         IN <<i>> \o SortedIdx(keys, todo \ {i})

SortByKey(s, keys) ==
    LET p == SortedIdx(keys, 1..Len(s)) IN [k \in 1..Len(s) |-> s[p[k]]]

-----------------------------------------------------------------------------
(* The East normalizer: process_east_file, steps 3 to 7 *)

\* .astype(str).str.strip().str.upper() on the line codes of the model.
UpperStrip(s) ==
    CASE s = " ab" -> "AB"
      [] s = "cd " -> "CD"
      [] OTHER -> s

\* Mutant: the line codes are normalized and every row is kept.
ValidLineRows_KeepAll(rows) ==
    [k \in 1..Len(rows) |-> [rows[k] EXCEPT !.Line = UpperStrip(@)]]

\* Mutant: an eighth line code is accepted.
ValidLineRows_EighthCode(rows) ==
    LET norm == [k \in 1..Len(rows) |-> [rows[k] EXCEPT !.Line = UpperStrip(@)]]
    IN SelectSeq(norm, LAMBDA r : r.Line \in VALID_LINES \cup {"ZZ"})

\* Step 3: keep the rows whose normalized line code is a valid line.
ValidLineRows(rows) ==
    LET norm == [k \in 1..Len(rows) |-> [rows[k] EXCEPT !.Line = UpperStrip(@)]]
    IN SelectSeq(norm, LAMBDA r : r.Line \in VALID_LINES)

\* Step 4: drop the rows with a blank material.
NonBlankMaterial(rows) ==
    SelectSeq(rows, LAMBDA r : r.Material # "" /\ r.Material # "nan")

\* Step 4: to_numeric(Qty), then keep Qty.fillna(0) > 0.
PositiveQty(rows) ==
    SelectSeq(rows, LAMBDA r : (IF NotNa(r.Qty) THEN Val(r.Qty) ELSE 0) > 0)

\* Step 5: the left join on fg_master_data attaches the reference speed and
\* kg_cb beside the sheet's Kg_TU, both empty for a sku without a row.
MergeMaster(rows, master_ref) ==
    [k \in 1..Len(rows) |->
        [Material |-> rows[k].Material, Line |-> rows[k].Line,
         Kg_TU |-> rows[k].Kg_TU, Date |-> rows[k].Date,
         Qty |-> Val(rows[k].Qty),
         kg_cb |-> IF rows[k].Material \in DOMAIN master_ref
                   THEN MasterKgCb ELSE None,
         Speed |-> IF rows[k].Material \in DOMAIN master_ref
                   THEN master_ref[rows[k].Material] ELSE None]]

\* Qty / Speed; the quantities and speeds of the model divide exactly.
ProdHour(r) ==
    IF NotNa(r.Speed) /\ Val(r.Speed) \notin {0}
    THEN Some(r.Qty \div Val(r.Speed))
    ELSE None

\* Mutant: Qty Bulk in KG is computed with the master's kg_cb when the
\* material has an entry, with the sheet's Kg_TU otherwise.
Calculations_MasterKg(rows) ==
    [k \in 1..Len(rows) |->
        LET kg == IF NotNa(rows[k].kg_cb) THEN rows[k].kg_cb ELSE rows[k].Kg_TU
        IN [Material |-> rows[k].Material, Line |-> rows[k].Line,
            Kg_TU |-> rows[k].Kg_TU, Date |-> rows[k].Date,
            Qty |-> rows[k].Qty, kg_cb |-> rows[k].kg_cb, Speed |-> rows[k].Speed,
            QtyBulk |-> IF NotNa(kg) THEN Some(rows[k].Qty * Val(kg)) ELSE None,
            ProdHour |-> ProdHour(rows[k])]]

\* Step 6: Qty Bulk in KG and Prod Hour (Days is Prod Hour / 24, in days).
Calculations(rows) ==
    [k \in 1..Len(rows) |->
        [Material |-> rows[k].Material, Line |-> rows[k].Line,
         Kg_TU |-> rows[k].Kg_TU, Date |-> rows[k].Date,
         Qty |-> rows[k].Qty, kg_cb |-> rows[k].kg_cb, Speed |-> rows[k].Speed,
         QtyBulk |-> IF NotNa(rows[k].Kg_TU)
                     THEN Some(rows[k].Qty * Val(rows[k].Kg_TU)) ELSE None,
         ProdHour |-> ProdHour(rows[k])]]

key_cols(r) == <<r.Date, r.Material, r.Line, r.Kg_TU>>

\* Mutant: the duplicates are not removed.
DropDuplicates_KeepAll(rows) == rows

\* drop_duplicates(subset=key_cols, keep="first")
DropDuplicates(rows) ==
    LET keep == {k \in 1..Len(rows) :
                    \A j \in 1..(k - 1) : key_cols(rows[j]) # key_cols(rows[k])}
        p == SortedIdx([k \in 1..Len(rows) |-> k], keep)
    IN [k \in 1..Len(p) |-> rows[p[k]]]

\* sort_values(["Date", "Line", "Material"]): one integer key in that order.
SortOut(rows) ==
    SortByKey(rows, [k \in 1..Len(rows) |->
        (rows[k].Date * 100 + StrRank(rows[k].Line)) * 100 + StrRank(rows[k].Material)])

NormalizeEast(rows, master_ref) ==
    SortOut(DropDuplicates(Calculations(MergeMaster(
        PositiveQty(NonBlankMaterial(ValidLineRows(rows))), master_ref))))

\* sorted(out["Line"].dropna().unique())
UniqueLines(rows) ==
    LET ls == {rows[k].Line : k \in 1..Len(rows)}
        lseq == CHOOSE q \in [1..Cardinality(ls) -> ls] :
                    \A a, b \in 1..Cardinality(ls) :
                        a < b => StrRank(q[a]) < StrRank(q[b])
    IN lseq

\* Mutant: the two following month numbers without the wrap at December.
MonthSet_NoWrap(m) == {m, m + 1, m + 2}

\* render_east, render_west: M1 and M2 from the base month.
MonthSet(m) == {m, ((m - 1 + 1) % 12) + 1, ((m - 1 + 2) % 12) + 1}


\* calendar_cs: every date of 2026-01-16 .. 2026-03-06 has a week.
CalFull == [d \in 380..430 |-> ((d % 365) \div 7) + 1]
\* A calendar that stops on 2026-02-05.
CalShort == [d \in 380..400 |-> ((d % 365) \div 7) + 1]
CalMaps == {CalFull, CalShort}

-----------------------------------------------------------------------------
(* State machine *)

Init ==
    /\ \/ /\ pc = "start"
          /\ \/ /\ raw \in SeqsUpTo(RawRows, MaxRows) \cup SeqsUpTo(KgRows, MaxRows)
                          \cup SeqsUpTo(AnomalyRows, MaxRows)
                          \cup SeqsUpTo(OrderRows, MaxOrderRows)
                          \cup SeqsUpTo(ScenarioRows, MaxRows)
                /\ selected_sheets = <<>>
             \/ /\ raw \in EastSheets
                /\ selected_sheets \in {<<s>> : s \in EastSheets}
          /\ sheet = <<>>
       \/ /\ pc = "sak_start"
          /\ \/ /\ raw \in SeqsUpTo(SakCells, MaxRows)
                /\ selected_sheets = <<>>
             \/ /\ raw \in SakSheets
                /\ selected_sheets \in {<<s>> : s \in SakSheets}
          /\ sheet = <<>>
       \/ /\ pc = "west_start"
          /\ raw = <<>>
          /\ selected_sheets = <<>>
          /\ sheet \in SeqsUpTo(WestRows, MaxSheetRows)
    /\ combined = <<>>
    /\ results = None
    /\ sak_result = <<>>
    /\ n_in = 0
    /\ n_items = 0
    /\ n_melt = 0
    /\ out = <<>>
    /\ unique_lines = <<>>
    /\ li = 0
    /\ line_df = <<>>
    /\ idx = 0
    /\ time_starts = <<>>
    /\ time_finishes = <<>>
    /\ m0 = 0
    /\ month_set = {}
    /\ cal_map = <<>>
    /\ line_dfs = <<>>

\* process_east_file, steps 1 to 7: reads fg_master_data and builds the
\* normalized table and the list of lines to schedule.
Normalize ==
    /\ pc = "start"
    /\ \E master_ref \in MasterRefs :
        /\ out' = NormalizeEast(raw, master_ref)
        /\ unique_lines' = UniqueLines(out')
    /\ raw' = <<>>
    /\ n_in' = Len(raw)
    /\ n_items' = Len(ValidLineRows(raw))
    /\ n_melt' = Len(PositiveQty(NonBlankMaterial(ValidLineRows(raw))))
    /\ li' = 1
    /\ pc' = "line"
    /\ UNCHANGED <<line_df, idx, time_starts, time_finishes, m0, month_set,
                   cal_map, line_dfs, westVars, sak_result, runVars>>

\* Mutant: the rows of a date are always in ascending material order.
DaySorted_NoPriority(day_data, last) ==
    SortByKey(day_data, [k \in 1..Len(day_data) |-> StrRank(day_data[k].Material)])

\* The rows of one date: the rows of last_material_prev_day first, the others
\* by ascending material.
DaySorted(day_data, last) ==
    LET byMaterial(rows) ==
            SortByKey(rows, [k \in 1..Len(rows) |-> StrRank(rows[k].Material)])
    IN IF last # None
       THEN SelectSeq(day_data, LAMBDA r : r.Material = Val(last))
            \o byMaterial(SelectSeq(day_data, LAMBDA r : r.Material # Val(last)))
       ELSE byMaterial(day_data)

\* Mutant: last_material_prev_day becomes the material of the first row of
\* the ordered date.
RECURSIVE SortedRows_FirstOfDay(_, _, _)
SortedRows_FirstOfDay(rows, ds, last) ==
    IF ds = {} THEN <<>>
    ELSE LET d == CHOOSE a \in ds : \A b \in ds : a <= b
             day_sorted == DaySorted(SelectSeq(rows, LAMBDA r : r.Date = d), last)
             nxt == IF day_sorted # <<>> THEN Some(day_sorted[1].Material) ELSE last
         IN day_sorted \o SortedRows_FirstOfDay(rows, ds \ {d}, nxt)

\* The loop `for d in unique_dates`, from the dates in ds (ascending) on.
RECURSIVE SortedRows(_, _, _)
SortedRows(rows, ds, last) ==
    IF ds = {} THEN <<>>
    ELSE LET d == CHOOSE a \in ds : \A b \in ds : a <= b
             day_sorted == DaySorted(SelectSeq(rows, LAMBDA r : r.Date = d), last)
             nxt == IF day_sorted # <<>>
                    THEN Some(day_sorted[Len(day_sorted)].Material) ELSE last
         IN day_sorted \o SortedRows(rows, ds \ {d}, nxt)

\* strftime("%b-%y"): the month and the two-digit year, the day is dropped.
MonYY(d) == <<MonthOfDate(d), YearOfDate(d) % 100>>

\* Mutant: the rows of every line are taken.
LineRows_NoSelect(rows, line) ==
    LET srt == SortedRows(rows, {rows[k].Date : k \in 1..Len(rows)}, None)
    IN [k \in 1..Len(srt) |->
          [Material |-> srt[k].Material, Line |-> srt[k].Line,
           Kg_TU |-> srt[k].Kg_TU, Qty |-> srt[k].Qty,
           QtyBulk |-> srt[k].QtyBulk, ProdHour |-> srt[k].ProdHour,
           Date |-> MonYY(srt[k].Date), orig_date |-> srt[k].Date]]

\* Mutant: the first row of the line is taken a second time at the end.
LineRows_FirstRepeated(rows, line) ==
    LET mine == SelectSeq(rows, LAMBDA r : r.Line = line)
        srt == SortedRows(mine, {mine[k].Date : k \in 1..Len(mine)}, None)
        lr == [k \in 1..Len(srt) |->
                [Material |-> srt[k].Material, Line |-> srt[k].Line,
                 Kg_TU |-> srt[k].Kg_TU, Qty |-> srt[k].Qty,
                 QtyBulk |-> srt[k].QtyBulk, ProdHour |-> srt[k].ProdHour,
                 Date |-> MonYY(srt[k].Date), orig_date |-> srt[k].Date]]
    IN IF lr = <<>> THEN lr ELSE Append(lr, lr[1])

\* One line's rows in date-then-priority order, _orig_date kept beside the
\* Mon-YY label that replaces Date.
LineRows(rows, line) ==
    LET mine == SelectSeq(rows, LAMBDA r : r.Line = line)
        srt == SortedRows(mine, {mine[k].Date : k \in 1..Len(mine)}, None)
    IN [k \in 1..Len(srt) |->
          [Material |-> srt[k].Material, Line |-> srt[k].Line,
           Kg_TU |-> srt[k].Kg_TU, Qty |-> srt[k].Qty,
           QtyBulk |-> srt[k].QtyBulk, ProdHour |-> srt[k].ProdHour,
           Date |-> MonYY(srt[k].Date), orig_date |-> srt[k].Date]]

\* for line in unique_lines: select and order the rows of the line.
OrderLine ==
    /\ pc = "line"
    /\ li <= Len(unique_lines)
    /\ line_df' = LineRows(out, unique_lines[li])
    /\ idx' = 0
    /\ time_starts' = <<>>
    /\ time_finishes' = <<>>
    /\ pc' = "schedule"
    /\ UNCHANGED <<raw, n_in, n_items, n_melt, out, unique_lines, li, m0, month_set, cal_map,
                   line_dfs, westVars, sak_result, runVars>>

\* Mutant: a later row always resumes at the previous finish.
TimeStart_NoFloor(row, i, finishes) ==
    IF i = 0 THEN row.orig_date * 24 + 7 ELSE finishes[Len(finishes)]

\* Mutant: a later row starts at 06:00 of its date whatever the previous
\* finish is.
TimeStart_DateOnly(row, i, finishes) ==
    IF i = 0 THEN row.orig_date * 24 + 7 ELSE row.orig_date * 24 + 6

\* time_start of the row at position idx (0-based) given the finishes so far.
TimeStart(row, i, finishes) ==
    LET current_date_6am == row.orig_date * 24 + 6
    IN IF i = 0 THEN row.orig_date * 24 + 7
       ELSE LET prev_finish == finishes[Len(finishes)]
            IN IF prev_finish > current_date_6am THEN prev_finish
               ELSE current_date_6am

\* Mutant: a row without production time is given one day.
DaysValue_DefaultDay(row) == IF NotNa(row.ProdHour) THEN Val(row.ProdHour) ELSE 24

\* Timedelta(days=days_value), in hours: Days is Prod Hour / 24.
DaysValue(row) == IF NotNa(row.ProdHour) THEN Val(row.ProdHour) ELSE 0

\* One iteration of `for idx, row in line_df.iterrows()`.
ScheduleRow ==
    /\ pc = "schedule"
    /\ idx < Len(line_df)
    /\ LET row == line_df[idx + 1]
           time_start == TimeStart(row, idx, time_finishes)
           time_finish == time_start + DaysValue(row)
       IN /\ time_starts' = Append(time_starts, time_start)
          /\ time_finishes' = Append(time_finishes, time_finish)
    /\ idx' = idx + 1
    /\ UNCHANGED <<pc, raw, n_in, n_items, n_melt, out, unique_lines, li, line_df, m0, month_set,
                   cal_map, line_dfs, westVars, sak_result, runVars>>

\* Mutant: five days later, whatever the weekday.
calc_release_time_NoShift(ts) == ts + 5 * 24

\* Mutant: a Sunday is shifted by two days.
calc_release_time_SundayTwo(ts) ==
    LET rt == ts + 5 * 24
    IN IF Weekday(DateOf(rt)) \in {5, 6} THEN rt + 2 * 24 ELSE rt

calc_release_time(ts) ==
    LET rt == ts + 5 * 24
    IN IF Weekday(DateOf(rt)) = 5 THEN rt + 2 * 24
       ELSE IF Weekday(DateOf(rt)) = 6 THEN rt + 1 * 24
       ELSE rt

RECURSIVE Digits(_)
Digits(n) == IF n < 10 THEN <<n>> ELSE Digits(n \div 10) \o <<n % 10>>

\* Mutant: day and month are written with two digits.
rel_ident_fmt_Padded(x) ==
    <<DayOfDate(x) \div 10, DayOfDate(x) % 10,
      MonthOfDate(x) \div 10, MonthOfDate(x) % 10>> \o Digits(YearOfDate(x))

\* f"{x.day}{x.month}{x.year}" as its decimal digits.
rel_ident_fmt(x) == Digits(DayOfDate(x)) \o Digits(MonthOfDate(x)) \o Digits(YearOfDate(x))

\* line_df["Time Start"] = time_starts; line_df["Time Finish"] = time_finishes
WithTimes(rows, starts, finishes) ==
    [k \in 1..Len(rows) |->
        [Line |-> rows[k].Line, Date |-> rows[k].Date, Material |-> rows[k].Material,
         Kg_TU |-> rows[k].Kg_TU, Qty |-> rows[k].Qty, QtyBulk |-> rows[k].QtyBulk,
         TimeStart |-> starts[k], TimeFinish |-> finishes[k]]]

\* Mutant: the window is applied to the month of Time Start.
MonthFilter_ByStart(slots, ms) == SelectSeq(slots, LAMBDA s : MonthOf(s.TimeStart) \in ms)

\* Mutant: no slot is removed.
MonthFilter_KeepAll(slots, ms) == slots

\* Mutant: the finish must also be in the year 2026.
MonthFilter_InYear(slots, ms) ==
    SelectSeq(slots, LAMBDA s : /\ MonthOf(s.TimeFinish) \in ms
                                /\ YearOfDate(DateOf(s.TimeFinish)) = 2026)

\* Mutant: the kept slots are moved earlier to close the gap left by the
\* slots dropped before the first of them.
MonthFilter_Compacted(slots, ms) ==
    LET kept == SelectSeq(slots, LAMBDA s : MonthOf(s.TimeFinish) \in ms)
        gap == IF kept = <<>> THEN 0 ELSE kept[1].TimeStart - slots[1].TimeStart
    IN [k \in 1..Len(kept) |->
        [kept[k] EXCEPT !.TimeStart = @ - gap, !.TimeFinish = @ - gap]]

\* line_df[line_df["Time Finish"].dt.month.isin(month_set)]
MonthFilter(slots, ms) == SelectSeq(slots, LAMBDA s : MonthOf(s.TimeFinish) \in ms)

\* Mutant: the kept slots are left in the order of the pass.
SortByTimeStart_Unsorted(slots) == slots

\* sort_values("Time Start", ascending=True)
SortByTimeStart(slots) ==
    SortByKey(slots, [k \in 1..Len(slots) |-> slots[k].TimeStart])

\* Mutant: a slot whose release date is not in the calendar is left out.
ReleaseAnnotate_InCalendarOnly(slots, cm) ==
    LET known == SelectSeq(slots, LAMBDA s :
                    DateOf(calc_release_time(s.TimeFinish)) \in DOMAIN cm)
    IN [k \in 1..Len(known) |->
        LET rel == DateOf(calc_release_time(known[k].TimeFinish))
        IN [Line |-> known[k].Line, Date |-> known[k].Date,
            Material |-> known[k].Material, Kg_TU |-> known[k].Kg_TU,
            Qty |-> known[k].Qty, QtyBulk |-> known[k].QtyBulk,
            TimeStart |-> known[k].TimeStart, TimeFinish |-> known[k].TimeFinish,
            ReleaseTime |-> rel,
            ReleaseWeek |-> Some(cm[rel]),
            ReleaseIdent |-> rel_ident_fmt(rel)]]

\* Mutant: the last kept slot is not annotated and is left out.
ReleaseAnnotate_AllButLast(slots, cm) ==
    [k \in 1..(Len(slots) - 1) |->
        LET rel == DateOf(calc_release_time(slots[k].TimeFinish))
        IN [Line |-> slots[k].Line, Date |-> slots[k].Date,
            Material |-> slots[k].Material, Kg_TU |-> slots[k].Kg_TU,
            Qty |-> slots[k].Qty, QtyBulk |-> slots[k].QtyBulk,
            TimeStart |-> slots[k].TimeStart, TimeFinish |-> slots[k].TimeFinish,
            ReleaseTime |-> rel,
            ReleaseWeek |-> IF rel \in DOMAIN cm THEN Some(cm[rel]) ELSE None,
            ReleaseIdent |-> rel_ident_fmt(rel)]]

\* Release Time (a date), Release Week and Release Ident of the kept slots.
ReleaseAnnotate(slots, cm) ==
    [k \in 1..Len(slots) |->
        LET rel == DateOf(calc_release_time(slots[k].TimeFinish))
        IN [Line |-> slots[k].Line, Date |-> slots[k].Date,
            Material |-> slots[k].Material, Kg_TU |-> slots[k].Kg_TU,
            Qty |-> slots[k].Qty, QtyBulk |-> slots[k].QtyBulk,
            TimeStart |-> slots[k].TimeStart, TimeFinish |-> slots[k].TimeFinish,
            ReleaseTime |-> rel,
            ReleaseWeek |-> IF rel \in DOMAIN cm THEN Some(cm[rel]) ELSE None,
            ReleaseIdent |-> rel_ident_fmt(rel)]]

\* The end of the line's loop body: the times are attached, the slots are
\* filtered by the month window, re-sorted and release-annotated.  month_set
\* and cal_map are parameters of the call, the same for every sheet of a run,
\* read here for the first time.
FinishLine ==
    /\ pc = "schedule"
    /\ idx = Len(line_df)
    /\ \E m \in IF m0 = 0 THEN BaseMonths ELSE {m0},
          cm \in IF m0 = 0 THEN CalMaps ELSE {cal_map} :
        /\ m0' = m
        /\ month_set' = MonthSet(m)
        /\ cal_map' = cm
        /\ LET kept == MonthFilter(WithTimes(line_df, time_starts, time_finishes),
                                   month_set')
           IN \/ /\ kept = <<>>
                 /\ line_dfs' = line_dfs
              \/ /\ kept # <<>>
                 /\ line_dfs' = Append(line_dfs,
                        [line |-> unique_lines[li],
                         df |-> ReleaseAnnotate(SortByTimeStart(kept), cm)])
    /\ li' = li + 1
    /\ pc' = "line"
    /\ UNCHANGED <<raw, n_in, n_items, n_melt, out, unique_lines, line_df, idx, time_starts,
                   time_finishes, westVars, sak_result, runVars>>

\* render_east: combined_line_dfs[line].append(df) for each line of a
\* sheet's result; each list is kept as the concatenation pd.concat(df_list)
\* of its frames.
RECURSIVE CombineEast(_, _)
CombineEast(comb, dfs) ==
    IF dfs = <<>> THEN comb
    ELSE LET e == Head(dfs)
             next ==
                IF \E k \in 1..Len(comb) : comb[k].line = e.line
                THEN [k \in 1..Len(comb) |->
                        IF comb[k].line = e.line
                        THEN [line |-> e.line, df |-> comb[k].df \o e.df]
                        ELSE comb[k]]
                ELSE Append(comb, e)
         IN CombineEast(next, Tail(dfs))

\* return line_dfs, and render_east adds the frames to combined_line_dfs.
Return ==
    /\ pc = "line"
    /\ li > Len(unique_lines)
    /\ combined' = CombineEast(combined, line_dfs)
    /\ pc' = "done"
    /\ UNCHANGED <<raw, n_in, n_items, n_melt, out, unique_lines, li, line_df, idx, time_starts,
                   time_finishes, m0, month_set, cal_map, line_dfs, westVars, sak_result, selected_sheets>>

\* render_east: the next selected sheet is read and processed.
NextEastSheet ==
    /\ pc = "done"
    /\ selected_sheets # <<>>
    /\ raw' = Head(selected_sheets)
    /\ selected_sheets' = Tail(selected_sheets)
    /\ n_in' = 0
    /\ n_items' = 0
    /\ n_melt' = 0
    /\ out' = <<>>
    /\ unique_lines' = <<>>
    /\ li' = 0
    /\ line_df' = <<>>
    /\ idx' = 0
    /\ time_starts' = <<>>
    /\ time_finishes' = <<>>
    /\ line_dfs' = <<>>
    /\ pc' = "start"
    /\ UNCHANGED <<m0, month_set, cal_map, westVars, sak_result, combined>>

-----------------------------------------------------------------------------
(* Sakatama: process_sakatama_file, one line "A,B" *)

SAKATAMA_LINE == "A,B"

\* round(float(qty_val), 0) of a quantity given in tenths: half to even.
RoundQty(t) ==
    LET q == t \div 10
        r == t % 10
    IN IF r < 5 THEN q
       ELSE IF r > 5 THEN q + 1
       ELSE IF q % 2 = 0 THEN q ELSE q + 1

\* extract_sakatama_production_data: the cells with a quantity above zero,
\* the quantity rounded.
SakExtract(cells) ==
    LET pos == SelectSeq(cells, LAMBDA c : c.QtyTenths > 0)
    IN [k \in 1..Len(pos) |->
          [Date |-> pos[k].Date, Material |-> pos[k].Material,
           Qty |-> RoundQty(pos[k].QtyTenths)]]

\* The left join on sku_code: Kg_TU is kg_cb and Speed is speed of the master.
SakMerge(rows, master_ref) ==
    [k \in 1..Len(rows) |->
        [Date |-> rows[k].Date, Material |-> rows[k].Material, Qty |-> rows[k].Qty,
         Kg_TU |-> master_ref[rows[k].Material].kg_cb,
         Speed |-> master_ref[rows[k].Material].speed]]

SakProdHour(r) ==
    IF NotNa(r.Speed) /\ Val(r.Speed) \notin {0}
    THEN Some(r.Qty \div Val(r.Speed))
    ELSE None

SakCalculations(rows) ==
    [k \in 1..Len(rows) |->
        [Date |-> rows[k].Date, Material |-> rows[k].Material, Qty |-> rows[k].Qty,
         Kg_TU |-> rows[k].Kg_TU, Speed |-> rows[k].Speed,
         QtyBulk |-> IF NotNa(rows[k].Kg_TU)
                     THEN Some(rows[k].Qty * Val(rows[k].Kg_TU)) ELSE None,
         ProdHour |-> SakProdHour(rows[k])]]

sak_key_cols(r) == <<r.Date, r.Material, r.Kg_TU>>

\* drop_duplicates(subset=key_cols, keep="first")
SakDropDuplicates(rows) ==
    LET keep == {k \in 1..Len(rows) :
                    \A j \in 1..(k - 1) : sak_key_cols(rows[j]) # sak_key_cols(rows[k])}
        p == SortedIdx([k \in 1..Len(rows) |-> k], keep)
    IN [k \in 1..Len(p) |-> rows[p[k]]]

\* sort_values(["Date", "Material"])
SakSortOut(rows) ==
    SortByKey(rows, [k \in 1..Len(rows) |->
        rows[k].Date * 100 + StrRank(rows[k].Material)])

NormalizeSakatama(cells, master_ref) ==
    SakSortOut(SakDropDuplicates(SakCalculations(SakMerge(SakExtract(cells),
                                                          master_ref))))

\* Extraction, enrichment, calculations, duplicate removal and the sort; an
\* extraction without rows returns an empty DataFrame at once.
SakNormalize ==
    /\ pc = "sak_start"
    /\ \/ /\ SakExtract(raw) = <<>>
          /\ out' = <<>>
          /\ pc' = "sak_done"
       \/ /\ SakExtract(raw) # <<>>
          /\ \E master_ref \in SakMasterRefs :
                out' = NormalizeSakatama(raw, master_ref)
          /\ pc' = "sak_order"
    /\ raw' = <<>>
    /\ n_in' = Len(raw)
    /\ n_items' = Len(raw)
    /\ n_melt' = Len(SakExtract(raw))
    /\ UNCHANGED <<line_df, idx, time_starts, time_finishes, m0, month_set,
                   cal_map, lineVars, westVars, sak_result, runVars>>

SakDaySorted(day_data, last) ==
    LET byMaterial(rows) ==
            SortByKey(rows, [k \in 1..Len(rows) |-> StrRank(rows[k].Material)])
    IN IF last # None
       THEN SelectSeq(day_data, LAMBDA r : r.Material = Val(last))
            \o byMaterial(SelectSeq(day_data, LAMBDA r : r.Material # Val(last)))
       ELSE byMaterial(day_data)

\* The loop `for d in unique_dates`, from the dates in ds (ascending) on.
RECURSIVE SakSortedRows(_, _, _)
SakSortedRows(rows, ds, last) ==
    IF ds = {} THEN <<>>
    ELSE LET d == CHOOSE a \in ds : \A b \in ds : a <= b
             day_sorted == SakDaySorted(SelectSeq(rows, LAMBDA r : r.Date = d), last)
             nxt == IF day_sorted # <<>>
                    THEN Some(day_sorted[Len(day_sorted)].Material) ELSE last
         IN day_sorted \o SakSortedRows(rows, ds \ {d}, nxt)

\* The rows in date-then-priority order with _orig_date beside Date.
SakRows(rows) ==
    LET srt == SakSortedRows(rows, {rows[k].Date : k \in 1..Len(rows)}, None)
    IN [k \in 1..Len(srt) |->
          [Material |-> srt[k].Material, Kg_TU |-> srt[k].Kg_TU, Qty |-> srt[k].Qty,
           QtyBulk |-> srt[k].QtyBulk, ProdHour |-> srt[k].ProdHour,
           Date |-> srt[k].Date, orig_date |-> srt[k].Date]]

SakOrder ==
    /\ pc = "sak_order"
    /\ line_df' = SakRows(out)
    /\ idx' = 0
    /\ time_starts' = <<>>
    /\ time_finishes' = <<>>
    /\ pc' = "sak_schedule"
    /\ UNCHANGED <<raw, n_in, n_items, n_melt, out, m0, month_set, cal_map, lineVars, westVars,
                   sak_result, runVars>>

\* Mutant: a later row starts no earlier than 07:00 of its date.
SakTimeStart_SevenFloor(row, i, finishes) ==
    LET current_date_7am == row.orig_date * 24 + 7
    IN IF i = 0 THEN current_date_7am
       ELSE LET prev_finish == finishes[Len(finishes)]
            IN IF prev_finish > current_date_7am THEN prev_finish
               ELSE current_date_7am

SakTimeStart(row, i, finishes) ==
    LET current_date_6am == row.orig_date * 24 + 6
    IN IF i = 0 THEN row.orig_date * 24 + 7
       ELSE LET prev_finish == finishes[Len(finishes)]
            IN IF prev_finish > current_date_6am THEN prev_finish
               ELSE current_date_6am

SakDaysValue(row) == IF NotNa(row.ProdHour) THEN Val(row.ProdHour) ELSE 0

\* One iteration of `for idx, row in out.iterrows()`.
SakScheduleRow ==
    /\ pc = "sak_schedule"
    /\ idx < Len(line_df)
    /\ LET row == line_df[idx + 1]
           time_start == SakTimeStart(row, idx, time_finishes)
           time_finish == time_start + SakDaysValue(row)
       IN /\ time_starts' = Append(time_starts, time_start)
          /\ time_finishes' = Append(time_finishes, time_finish)
    /\ idx' = idx + 1
    /\ UNCHANGED <<pc, raw, n_in, n_items, n_melt, out, line_df, m0, month_set, cal_map, lineVars,
                   westVars, sak_result, runVars>>

\* The slots kept by the month window, sorted by Time Start, with the release
\* columns, the Mon-YY label in Date and the Line column.
SakOutput(rows, starts, finishes, ms, cm) ==
    LET sel == {k \in 1..Len(rows) : MonthOf(finishes[k]) \in ms}
        p == SortedIdx([k \in 1..Len(rows) |-> starts[k]], sel)
    IN [n \in 1..Len(p) |->
        LET k == p[n]
            rel == DateOf(calc_release_time(finishes[k]))
        IN [Line |-> SAKATAMA_LINE, Date |-> MonYY(rows[k].Date),
            Material |-> rows[k].Material, Kg_TU |-> rows[k].Kg_TU,
            Qty |-> rows[k].Qty, QtyBulk |-> rows[k].QtyBulk,
            TimeStart |-> starts[k], TimeFinish |-> finishes[k],
            ReleaseTime |-> rel,
            ReleaseWeek |-> IF rel \in DOMAIN cm THEN Some(cm[rel]) ELSE None,
            ReleaseIdent |-> rel_ident_fmt(rel)]]

\* render_sakatama: all_dfs.append(df) unless df is empty; the list is kept
\* as the concatenation pd.concat(all_dfs) of its frames.
CombineSak(comb, df) ==
    IF df = <<>> THEN comb
    ELSE IF comb = <<>> THEN <<[line |-> SAKATAMA_LINE, df |-> df]>>
    ELSE <<[line |-> SAKATAMA_LINE, df |-> comb[1].df \o df]>>

\* The end of process_sakatama_file; month_set and cal_map are parameters of
\* the call, the same for every sheet of a run, read here for the first time.
\* render_sakatama then adds the frame to all_dfs.
SakFinish ==
    /\ pc = "sak_schedule"
    /\ idx = Len(line_df)
    /\ \E m \in IF m0 = 0 THEN BaseMonths ELSE {m0},
          cm \in IF m0 = 0 THEN CalMaps ELSE {cal_map} :
        /\ m0' = m
        /\ month_set' = MonthSet(m)
        /\ cal_map' = cm
        /\ sak_result' = SakOutput(line_df, time_starts, time_finishes,
                                   month_set', cm)
    /\ combined' = CombineSak(combined, sak_result')
    /\ pc' = "sak_done"
    /\ UNCHANGED <<raw, n_in, n_items, n_melt, out, line_df, idx, time_starts, time_finishes,
                   lineVars, westVars, selected_sheets>>

\* render_sakatama: the next selected sheet is read and processed.
NextSakSheet ==
    /\ pc = "sak_done"
    /\ selected_sheets # <<>>
    /\ raw' = Head(selected_sheets)
    /\ selected_sheets' = Tail(selected_sheets)
    /\ sak_result' = <<>>
    /\ n_in' = 0
    /\ n_items' = 0
    /\ n_melt' = 0
    /\ out' = <<>>
    /\ line_df' = <<>>
    /\ idx' = 0
    /\ time_starts' = <<>>
    /\ time_finishes' = <<>>
    /\ pc' = "sak_start"
    /\ UNCHANGED <<m0, month_set, cal_map, lineVars, westVars, combined>>

-----------------------------------------------------------------------------
(* West: process_sheet and the release identifier of render_west *)

\* Keep the rows whose Time_Finish month is in the window (an unparseable
\* Time_Finish has no month), sorted by Time Start, unparseable starts last.
filter_by_m0_m2(rows, ms) ==
    LET kept == SelectSeq(rows, LAMBDA r :
                    NotNa(r.TimeFinish) /\ MonthOf(Val(r.TimeFinish)) \in ms)
    IN SortByKey(kept, [k \in 1..Len(kept) |->
            IF NotNa(kept[k].TimeStart) THEN Val(kept[k].TimeStart) ELSE 1000000])

\* Release time, Release wk and, in render_west, Release Ident.
WestRelease(rows, cm) ==
    [k \in 1..Len(rows) |->
        LET rel == DateOf(calc_release_time(Val(rows[k].TimeFinish)))
        IN [TimeStart |-> rows[k].TimeStart, TimeFinish |-> Val(rows[k].TimeFinish),
            ReleaseTime |-> rel,
            ReleaseWeek |-> IF rel \in DOMAIN cm THEN Some(cm[rel]) ELSE None,
            ReleaseIdent |-> rel_ident_fmt(rel)]]

\* render_west calls process_sheet with the month window of its base month.
ProcessSheet ==
    /\ pc = "west_start"
    /\ \E m \in 1..12, cm \in CalMaps :
        /\ m0' = m
        /\ month_set' = MonthSet(m)
        /\ cal_map' = cm
        /\ LET kept == filter_by_m0_m2(sheet, month_set')
           IN \/ /\ kept = <<>>
                 /\ results' = None
              \/ /\ kept # <<>>
                 /\ results' = Some(WestRelease(kept, cm))
    /\ pc' = "west_done"
    /\ UNCHANGED <<sheet, eastVars, sak_result, runVars>>

Next ==
    \/ Normalize \/ OrderLine \/ ScheduleRow \/ FinishLine \/ Return \/ NextEastSheet
    \/ SakNormalize \/ SakOrder \/ SakScheduleRow \/ SakFinish \/ NextSakSheet
    \/ ProcessSheet

Spec == Init /\ [][Next]_vars

\* A scheduling pass runs to its end: the code is sequential and the loop is
\* over the rows of a finite frame.  The calls are those on the sheets of
\* ScenarioRows, on the Sakatama cells and on West sheets of at most one row.
FairInit ==
    /\ Init
    /\ pc = "start" => raw \in SeqsUpTo(ScenarioRows, MaxRows) \/ selected_sheets # <<>>
    /\ pc = "west_start" => Len(sheet) <= 1

FairSpec ==
    /\ FairInit
    /\ [][Next]_vars
    /\ WF_vars(ScheduleRow)
    /\ WF_vars(FinishLine)
    /\ WF_vars(SakScheduleRow)
    /\ WF_vars(SakFinish)

-----------------------------------------------------------------------------
(* Properties *)

Max(a, b) == IF a > b THEN a ELSE b
Min(a, b) == IF a < b THEN a ELSE b

\* The half-open intervals [s1, f1) and [s2, f2) share an instant.
Overlap(s1, f1, s2, f2) == Max(s1, s2) < Min(f1, f2)

DayFloor(row) == row.orig_date * 24 + 6

\* The slots of every line of the East result and those of the Sakatama
\* result.
OutputLists ==
    {line_dfs[k].df : k \in 1..Len(line_dfs)}
        \cup (IF sak_result = <<>> THEN {} ELSE {sak_result})

\* FinishLine has just ended the loop body of the line held in line_df.
LineFinished == pc = "line" /\ li > 1

\* process_sakatama_file has returned after a scheduling pass.
SakFinished == pc = "sak_done" /\ line_df # <<>>

\* The line of a record: Sakatama records have no Line column before the
\* output, they all belong to the one Sakatama line.
LineOf(r) == IF "Line" \in DOMAIN r THEN r.Line ELSE SAKATAMA_LINE

\* C1: in one scheduling pass no two distinct slots of a line have
\* overlapping half-open intervals [timeStart, timeFinish).
C1_NonOverlap ==
    \A i, j \in 1..Len(time_starts) :
        i # j => ~Overlap(time_starts[i], time_finishes[i],
                          time_starts[j], time_finishes[j])

\* C2: the slots returned for a line are sorted by timeStart ascending.
C2_OutputSorted ==
    \A df \in OutputLists :
        \A k \in 1..(Len(df) - 1) : df[k].TimeStart <= df[k + 1].TimeStart

\* C2 witness: a line was returned whose kept slots the pass had stamped in
\* another order than that of their starts.
C2_Witness ==
    /\ LineFinished
    /\ \E df \in OutputLists :
        /\ Len(df) >= 2
        /\ df[1].Line = unique_lines[li - 1]
    /\ \E i, j \in 1..Len(time_starts) :
        /\ i < j
        /\ time_starts[i] > time_starts[j]
        /\ MonthOf(time_finishes[i]) \in month_set
        /\ MonthOf(time_finishes[j]) \in month_set

\* C3: in the returned list of a line, a slot never starts before the slot
\* listed just before it has finished.
C3_NeverRewinds ==
    \A df \in OutputLists :
        \A k \in 2..Len(df) : df[k].TimeStart >= df[k - 1].TimeFinish

\* C4: every slot starts at or after 06:00 of its nominal date, and the first
\* record processed for a line starts at 07:00 of its date.
C4_DayFloor ==
    /\ \A k \in 1..Len(time_starts) : time_starts[k] >= DayFloor(line_df[k])
    /\ Len(time_starts) >= 1 => time_starts[1] = line_df[1].orig_date * 24 + 7

\* C4 witness: a later slot of the line waits for 06:00 of its date.
C4_Witness ==
    /\ Len(time_starts) >= 2
    /\ time_starts[2] = DayFloor(line_df[2])
    /\ time_finishes[1] < DayFloor(line_df[2])

C9_OnePerLineDateMaterial ==
    \A i, j \in 1..Len(out) :
        (/\ LineOf(out[i]) = LineOf(out[j])
         /\ out[i].Date = out[j].Date
         /\ out[i].Material = out[j].Material) => i = j

\* The first raw row with the key of the normalized row o.
FirstRawWithKey(rows, o) ==
    LET same(k) == /\ UpperStrip(rows[k].Line) = o.Line
                   /\ rows[k].Date = o.Date
                   /\ rows[k].Material = o.Material
                   /\ rows[k].Kg_TU = o.Kg_TU
    IN CHOOSE k \in 1..Len(rows) : same(k) /\ \A j \in 1..(k - 1) : ~same(j)

\* The first Sakatama cell with a quantity above zero and the date and
\* material of the normalized row o.
FirstCellWithKey(cells, o) ==
    LET same(k) == /\ cells[k].QtyTenths > 0
                   /\ cells[k].Date = o.Date
                   /\ cells[k].Material = o.Material
    IN CHOOSE k \in 1..Len(cells) : same(k) /\ \A j \in 1..(k - 1) : ~same(j)

\* C9 amended: the records handed to the scheduler hold at most one entry per
\* (line, date, material, Kg_TU), and it carries the quantity of the first
\* raw row with that key.
C9_OnePerKeyWithKg ==
    /\ [](\A i, j \in 1..Len(out) :
            (/\ LineOf(out[i]) = LineOf(out[j])
             /\ out[i].Date = out[j].Date
             /\ out[i].Material = out[j].Material
             /\ out[i].Kg_TU = out[j].Kg_TU) => i = j)
    /\ [][pc = "start" =>
            \A k \in 1..Len(out') :
                out'[k].Qty = Val(raw[FirstRawWithKey(raw, out'[k])].Qty)]_vars
    /\ [][pc = "sak_start" =>
            \A k \in 1..Len(out') :
                out'[k].Qty = RoundQty(raw[FirstCellWithKey(raw, out'[k])].QtyTenths)]_vars

\* C9 witness: two raw rows with one key and different quantities were
\* collapsed, and two rows that differ only in Kg_TU were both kept.
C9_Witness ==
    /\ pc = "line"
    /\ n_in > Len(out)
    /\ \E i, j \in 1..Len(out) :
        /\ i # j
        /\ out[i].Material = out[j].Material
        /\ out[i].Kg_TU # out[j].Kg_TU
        /\ out[i].Qty # out[j].Qty

\* C10: a record whose speed is absent or zero has no production time, its
\* slot has timeStart = timeFinish, the next slot starts as if it took no
\* time, and when its finish month is in the window it is returned with the
\* release date of that instant.
ZeroSpeedRow(row) == row.ProdHour = None

C10_ZeroSpeed ==
    /\ \A k \in 1..Len(out) :
        (out[k].Speed = None \/ out[k].Speed = Some(0)) <=> out[k].ProdHour = None
    /\ \A k \in 1..Len(time_starts) :
        ZeroSpeedRow(line_df[k]) =>
            /\ time_finishes[k] = time_starts[k]
            /\ k + 1 <= Len(time_starts) =>
                time_starts[k + 1] = Max(time_starts[k], DayFloor(line_df[k + 1]))
    /\ (LineFinished \/ SakFinished) =>
        \A k \in 1..Len(line_df) :
            (ZeroSpeedRow(line_df[k]) /\ MonthOf(time_finishes[k]) \in month_set) =>
                \E df \in OutputLists : \E n \in 1..Len(df) :
                    /\ df[n].Line = LineOf(line_df[k])
                    /\ df[n].Material = line_df[k].Material
                    /\ df[n].TimeStart = time_starts[k]
                    /\ df[n].TimeFinish = time_starts[k]
                    /\ df[n].ReleaseTime = DateOf(time_starts[k]) + 5
                         + (CASE Weekday(DateOf(time_starts[k]) + 5) = 5 -> 2
                              [] Weekday(DateOf(time_starts[k]) + 5) = 6 -> 1
                              [] OTHER -> 0)

\* C10 witness: a line was returned with a slot of a record without speed
\* between two slots that take time.
C10_Witness ==
    /\ LineFinished
    /\ Len(line_df) >= 3
    /\ ZeroSpeedRow(line_df[2])
    /\ ~ZeroSpeedRow(line_df[1])
    /\ ~ZeroSpeedRow(line_df[3])
    /\ \E df \in OutputLists : \E n \in 1..Len(df) :
        /\ df[n].Line = line_df[2].Line
        /\ df[n].TimeStart = df[n].TimeFinish
        /\ df[n].TimeStart = time_starts[2]

\* The output slots of the West sheet.
WestSlots == IF results = None THEN <<>> ELSE Val(results)

\* C5: the release date of an output slot, East or West, is never a Saturday
\* (weekday 5) or a Sunday (weekday 6), whatever the finish time of the slot.
C5_WeekendFreeRelease ==
    /\ \A df \in OutputLists : \A k \in 1..Len(df) :
          Weekday(df[k].ReleaseTime) \notin {5, 6}
    /\ \A k \in 1..Len(WestSlots) :
          Weekday(WestSlots[k].ReleaseTime) \notin {5, 6}

\* C5 witness: a West slot whose finish plus five days is a Saturday is
\* released on the Monday after.
C5_Witness ==
    \E k \in 1..Len(WestSlots) :
        /\ Weekday(DateOf(WestSlots[k].TimeFinish) + 5) = 5
        /\ WestSlots[k].ReleaseTime = DateOf(WestSlots[k].TimeFinish) + 7

\* An East or Sakatama slot whose finish plus five days is a Sunday is
\* released on the Monday after.
C5_WitnessSunday ==
    \E df \in OutputLists : \E k \in 1..Len(df) :
        /\ Weekday(DateOf(df[k].TimeFinish) + 5) = 6
        /\ df[k].ReleaseTime = DateOf(df[k].TimeFinish) + 6

\* C8: once a base month M0 is entered, the month window is exactly
\* {M0, (M0 mod 12) + 1, (((M0 mod 12) + 1) mod 12) + 1}, three distinct month
\* numbers of 1..12 (base 11 gives {11, 12, 1}, base 12 gives {12, 1, 2}).
C8_MonthWindow ==
    m0 # 0 =>
        /\ month_set = {m0, (m0 % 12) + 1, (((m0 % 12) + 1) % 12) + 1}
        /\ Cardinality(month_set) = 3
        /\ month_set \subseteq 1..12
        /\ (m0 = 11 => month_set = {11, 12, 1})
        /\ (m0 = 12 => month_set = {12, 1, 2})

\* The window of base month 12 was derived for a West sheet with a slot
\* finishing in February.
C8_Witness ==
    /\ m0 = 12
    /\ month_set = {12, 1, 2}
    /\ \E k \in 1..Len(WestSlots) : MonthOf(WestSlots[k].TimeFinish) = 2

\* A raw row the normalizer must keep: its trimmed upper-cased line code is
\* valid, its material is not blank and its quantity is a number above zero.
Eligible(r) ==
    /\ UpperStrip(r.Line) \in VALID_LINES
    /\ r.Material \notin {"", "nan"}
    /\ r.Qty # None
    /\ Val(r.Qty) > 0

\* C11: the normalizer keeps no record with an invalid line code or with a
\* quantity that is missing, non-numeric, zero or negative, it keeps a record
\* for every key of the other raw records, and every record it keeps is
\* time-stamped by the scheduling pass of its line.
C11_DropsInvalid ==
    /\ [][pc = "start" =>
            /\ \A k \in 1..Len(out') :
                /\ out'[k].Line \in VALID_LINES
                /\ out'[k].Qty > 0
                /\ \E j \in 1..Len(raw) :
                    /\ Eligible(raw[j])
                    /\ UpperStrip(raw[j].Line) = out'[k].Line
                    /\ raw[j].Material = out'[k].Material
                    /\ raw[j].Date = out'[k].Date
                    /\ raw[j].Kg_TU = out'[k].Kg_TU
                    /\ Val(raw[j].Qty) = out'[k].Qty
            /\ \A j \in 1..Len(raw) :
                Eligible(raw[j]) =>
                    \E k \in 1..Len(out') :
                        /\ out'[k].Line = UpperStrip(raw[j].Line)
                        /\ out'[k].Material = raw[j].Material
                        /\ out'[k].Date = raw[j].Date
                        /\ out'[k].Kg_TU = raw[j].Kg_TU
            /\ pc' = "line"]_vars
    /\ [](LineFinished =>
            /\ Len(time_starts) = Len(line_df)
            /\ Len(line_df) =
                 Cardinality({k \in 1..Len(out) : out[k].Line = unique_lines[li - 1]}))
    /\ [](pc = "done" => li = Len(unique_lines) + 1)

\* C11 witness: a run has returned for a sheet of which one row was dropped
\* for its line code and one for its quantity, and the remaining row is in
\* the result.
C11_Witness ==
    /\ pc = "done"
    /\ n_in > n_items
    /\ n_items > n_melt
    /\ n_melt >= 1
    /\ Len(line_dfs) >= 1

\* The release date of a slot finishing at the instant tf.
ReleaseDateOf(tf) ==
    DateOf(tf) + 5 + (CASE Weekday(DateOf(tf) + 5) = 5 -> 2
                        [] Weekday(DateOf(tf) + 5) = 6 -> 1
                        [] OTHER -> 0)

\* C12: every slot whose finish month is in the window is returned, whether
\* or not its release date is in the calendar; each returned slot has its
\* release date and release identifier, and its release week is the calendar
\* entry of its own release date, or undefined when the calendar has none.
C12_MissingCalendar ==
    /\ \A df \in OutputLists : \A k \in 1..Len(df) :
        /\ df[k].ReleaseTime = ReleaseDateOf(df[k].TimeFinish)
        /\ df[k].ReleaseIdent # <<>>
        /\ df[k].ReleaseTime \in DOMAIN cal_map
              => df[k].ReleaseWeek = Some(cal_map[df[k].ReleaseTime])
        /\ df[k].ReleaseTime \notin DOMAIN cal_map => df[k].ReleaseWeek = None
    /\ (LineFinished \/ SakFinished) =>
        \A k \in 1..Len(line_df) :
            MonthOf(time_finishes[k]) \in month_set =>
                \E df \in OutputLists : \E n \in 1..Len(df) :
                    /\ df[n].Line = LineOf(line_df[k])
                    /\ df[n].Material = line_df[k].Material
                    /\ df[n].TimeStart = time_starts[k]
                    /\ df[n].TimeFinish = time_finishes[k]

\* C12 witness: a line was returned with a slot whose release date is not in
\* the calendar next to a slot whose release date is.
C12_Witness ==
    /\ LineFinished
    /\ \E df \in OutputLists : \E i, j \in 1..Len(df) :
        /\ df[i].Line = unique_lines[li - 1]
        /\ df[i].ReleaseTime \notin DOMAIN cal_map
        /\ df[i].ReleaseWeek = None
        /\ df[i].ReleaseIdent = rel_ident_fmt(df[i].ReleaseTime)
        /\ df[j].ReleaseTime \in DOMAIN cal_map
        /\ df[j].ReleaseWeek # None

\* The lines that have a timeline in the East result.
ResultLines == {line_dfs[k].line : k \in 1..Len(line_dfs)}

\* C13: a line without eligible records has no timeline, a line whose slots
\* are all outside the month window has none either and the loop goes on to
\* the next line, no returned timeline is empty, and a sheet without eligible
\* records returns an empty result.
C13_EmptyLines ==
    /\ ResultLines \subseteq {unique_lines[k] : k \in 1..Len(unique_lines)}
    /\ \A k \in 1..Len(unique_lines) :
        \E j \in 1..Len(out) : out[j].Line = unique_lines[k]
    /\ \A k \in 1..Len(line_dfs) : line_dfs[k].df # <<>>
    /\ LineFinished =>
        ((\A k \in 1..Len(time_finishes) : MonthOf(time_finishes[k]) \notin month_set)
            <=> unique_lines[li - 1] \notin ResultLines)
    /\ (pc = "done" /\ n_melt = 0) => (out = <<>> /\ line_dfs = <<>>)
    /\ (pc = "sak_done" /\ n_melt = 0) => sak_result = <<>>
    /\ (SakFinished /\ \A k \in 1..Len(time_finishes) :
                          MonthOf(time_finishes[k]) \notin month_set)
            => sak_result = <<>>

\* C13 witness: the run has returned; the slots of its first line were all
\* outside the window and the second line has a timeline.
C13_Witness ==
    /\ pc = "done"
    /\ Len(unique_lines) = 2
    /\ ResultLines = {unique_lines[2]}

\* A run has returned an empty result for a sheet whose rows were all
\* rejected, and another for a sheet whose slots were all outside the window.
C13_EmptyRunNoRecords == pc = "done" /\ n_in > 0 /\ n_melt = 0 /\ line_dfs = <<>>
C13_EmptyRunAllFiltered == pc = "done" /\ n_melt > 0 /\ line_dfs = <<>>

\* The records of one line, of the raw sheet and of the normalized table.
RawOfLine(rows, line) == SelectSeq(rows, LAMBDA r : UpperStrip(r.Line) = line)
OutOfLine(rows, line) == SelectSeq(rows, LAMBDA r : r.Line = line)

\* The reference speeds that the normalized rows show to have been joined;
\* the speed of a material without a row plays no part.
MasterSeen(rows) ==
    [m \in Materials |->
        IF \E k \in 1..Len(rows) : rows[k].Material = m
        THEN rows[CHOOSE k \in 1..Len(rows) : rows[k].Material = m].Speed
        ELSE None]

\* The scheduling pass over the ordered rows ld from position i on, given
\* the starts and finishes of the rows before.
RECURSIVE Stamp(_, _, _, _)
Stamp(ld, i, starts, finishes) ==
    IF i >= Len(ld) THEN [starts |-> starts, finishes |-> finishes]
    ELSE LET time_start == TimeStart(ld[i + 1], i, finishes)
         IN Stamp(ld, i + 1, Append(starts, time_start),
                  Append(finishes, time_start + DaysValue(ld[i + 1])))

\* The timeline of a line computed from the records of that line alone.
TimelineAlone(rows, line, ms, cm) ==
    LET ld == LineRows(rows, line)
        st == Stamp(ld, 0, <<>>, <<>>)
        kept == MonthFilter(WithTimes(ld, st.starts, st.finishes), ms)
    IN IF kept = <<>> THEN <<>> ELSE ReleaseAnnotate(SortByTimeStart(kept), cm)

\* The timeline the result holds for a line, empty when it holds none.
TimelineOf(dfs, line) ==
    IF \E k \in 1..Len(dfs) : dfs[k].line = line
    THEN dfs[CHOOSE k \in 1..Len(dfs) : dfs[k].line = line].df
    ELSE <<>>

\* C14: the normalized records of a line are those obtained from the raw
\* records of that line alone, the timeline of a line is the one obtained
\* from the normalized records of that line alone with the same lookups and
\* month window, and the timelines of the lines already done stay as they are.
C14_LineIndependence ==
    /\ [][pc = "start" =>
            \A line \in VALID_LINES :
                OutOfLine(out', line) =
                    NormalizeEast(RawOfLine(raw, line), MasterSeen(out'))]_vars
    /\ [][pc = "schedule" /\ pc' = "line" =>
            /\ TimelineOf(line_dfs', unique_lines[li]) =
                 TimelineAlone(OutOfLine(out, unique_lines[li]), unique_lines[li],
                               month_set', cal_map')
            /\ \A k \in 1..Len(line_dfs) : line_dfs'[k] = line_dfs[k]
            /\ Len(line_dfs') <= Len(line_dfs) + 1]_vars

\* C14 witness: the second line of a sheet was returned after a first line
\* with several slots.
C14_Witness ==
    /\ LineFinished
    /\ li = 3
    /\ Len(line_dfs) = 2
    /\ Len(line_dfs[1].df) >= 2
    /\ line_dfs[2].line = unique_lines[2]
    /\ line_dfs[2].df[1].TimeStart < line_dfs[1].df[2].TimeFinish

\* The decimal digits of a day or month number and of a four-digit year,
\* without leading zeros.
DecimalUpTo99(n) == IF n < 10 THEN <<n>> ELSE <<n \div 10, n % 10>>
DecimalYear(n) == <<n \div 1000, (n \div 100) % 10, (n \div 10) % 10, n % 10>>

ExpectedIdent(d) ==
    DecimalUpTo99(DayOfDate(d)) \o DecimalUpTo99(MonthOfDate(d))
        \o DecimalYear(YearOfDate(d))

\* 2026-03-05 as a day number.
March5 == 365 + 31 + 28 + 4

\* C15: the release identifier of every returned slot, East, Sakatama or
\* West, is the day, the month and the year of its release date written one
\* after the other in decimal without leading zeros or separators; 5 March
\* 2026 gives 532026.
C15_ReleaseIdent ==
    /\ \A df \in OutputLists \cup {WestSlots} : \A k \in 1..Len(df) :
          df[k].ReleaseIdent = ExpectedIdent(df[k].ReleaseTime)
    /\ DayOfDate(March5) = 5 /\ MonthOfDate(March5) = 3 /\ YearOfDate(March5) = 2026
    /\ rel_ident_fmt(March5) = <<5, 3, 2, 0, 2, 6>>

\* C15 witness: a slot released on 6 February 2026 has the identifier 622026
\* and a slot of the same list released on 10 February 2026 has 1022026.
C15_Witness ==
    \E df \in OutputLists \cup {WestSlots} : \E i, j \in 1..Len(df) :
        /\ df[i].ReleaseIdent = <<6, 2, 2, 0, 2, 6>>
        /\ df[j].ReleaseIdent = <<1, 0, 2, 2, 0, 2, 6>>

\* C16 as stated: every returned slot, East or Sakatama, carries one of the
\* seven valid line codes.
C16_LineInValidSet ==
    \A df \in OutputLists : \A k \in 1..Len(df) : df[k].Line \in VALID_LINES

\* C16 amended: there are seven valid line codes; every slot of an East
\* timeline carries the code of its timeline, which is one of the seven, and
\* every Sakatama slot carries the fixed identifier "A,B", which is not.
C16_LineCodes ==
    /\ Cardinality(VALID_LINES) = 7
    /\ \A e \in 1..Len(line_dfs) :
        /\ line_dfs[e].line \in VALID_LINES
        /\ \A k \in 1..Len(line_dfs[e].df) : line_dfs[e].df[k].Line = line_dfs[e].line
    /\ \A k \in 1..Len(sak_result) :
        /\ sak_result[k].Line = "A,B"
        /\ sak_result[k].Line \notin VALID_LINES

\* C16 witness: process_sakatama_file has returned slots.
C16_Witness ==
    /\ SakFinished
    /\ Len(sak_result) >= 2
    /\ \A k \in 1..Len(sak_result) : sak_result[k].Line = SAKATAMA_LINE

\* C17: every record handed to the scheduling pass and every returned slot,
\* East or Sakatama, has a quantity above zero.
C17_PositiveQty ==
    /\ \A k \in 1..Len(out) : out[k].Qty > 0
    /\ \A k \in 1..Len(line_df) : line_df[k].Qty > 0
    /\ \A df \in OutputLists : \A k \in 1..Len(df) : df[k].Qty > 0

\* lastMaterial when the date of row k of the ordered rows ld is reached: the
\* material of the last row of an earlier date, undefined on the first date.
LastMaterialAt(ld, k) ==
    LET earlier == {j \in 1..Len(ld) : ld[j].orig_date < ld[k].orig_date}
    IN IF earlier = {} THEN None
       ELSE Some(ld[CHOOSE j \in earlier : \A i \in earlier : i <= j].Material)

\* C18: the ordered records of a line (and of Sakatama) go by ascending
\* date; within a date the records of lastMaterial, if it is defined and has
\* records on the date, come first and the other records follow in ascending
\* material order; without lastMaterial or without a record of it, all the
\* records of the date are in ascending material order.
C18_DateGroupOrder ==
    \A i, j \in 1..Len(line_df) :
        i < j =>
            /\ line_df[i].orig_date <= line_df[j].orig_date
            /\ line_df[i].orig_date = line_df[j].orig_date =>
                LET last == LastMaterialAt(line_df, i)
                    isLast(k) == last # None /\ line_df[k].Material = Val(last)
                IN /\ isLast(j) => isLast(i)
                   /\ (~isLast(i) /\ ~isLast(j)) =>
                        StrRank(line_df[i].Material) <= StrRank(line_df[j].Material)

\* C18 witness: on the second date the record of lastMaterial X3 comes first
\* and two other records follow in ascending order; in the input they came
\* in another order.
C18_Witness ==
    /\ pc = "schedule"
    /\ Len(line_df) = 4
    /\ line_df[1].orig_date < line_df[2].orig_date
    /\ <<line_df[1].Material, line_df[2].Material, line_df[3].Material,
         line_df[4].Material>> = <<"X3", "X3", "X1", "X2">>

\* C19: when a date follows another date of the line, however many days
\* later, and has a record of the material of the last ordered record of that
\* earlier date, the date starts with a record of this material, whatever
\* the times of the records are.
C19_LastMaterial ==
    \A k \in 2..Len(line_df) :
        line_df[k - 1].orig_date # line_df[k].orig_date =>
            /\ LastMaterialAt(line_df, k) = Some(line_df[k - 1].Material)
            /\ (\E j \in k..Len(line_df) :
                    /\ line_df[j].orig_date = line_df[k].orig_date
                    /\ line_df[j].Material = line_df[k - 1].Material)
                => line_df[k].Material = line_df[k - 1].Material

\* C19 witness: the first date ended with X3, which did not finish later
\* than the record before it; two days later the date starts with X3 and X1
\* follows.
C19_Witness ==
    /\ pc = "schedule"
    /\ idx = Len(line_df)
    /\ Len(line_df) = 4
    /\ line_df[2].orig_date + 2 = line_df[3].orig_date
    /\ <<line_df[1].Material, line_df[2].Material, line_df[3].Material,
         line_df[4].Material>> = <<"X1", "X3", "X3", "X1">>
    /\ time_finishes[2] <= time_finishes[1]
    /\ time_finishes[1] > time_starts[1]

\* The normalized row from which the ordered row r was taken.
OutRowOf(r) ==
    LET match(o) == /\ LineOf(o) = LineOf(r)
                    /\ o.Date = r.orig_date
                    /\ o.Material = r.Material
                    /\ o.Kg_TU = r.Kg_TU
    IN out[CHOOSE k \in 1..Len(out) : match(out[k])]

\* Scenario A: line AB, X1 (240 cartons) and X2 (120 cartons) of 2026-01-10,
\* both at 10 cartons per hour, time-stamped.
ScenarioA ==
    /\ Len(time_starts) = 2
    /\ Len(line_df) = 2
    /\ \A k \in 1..2 :
        /\ LineOf(line_df[k]) = "AB"
        /\ line_df[k].orig_date = 374
        /\ OutRowOf(line_df[k]).Speed = Some(10)
    /\ line_df[1].Material = "X1" /\ line_df[1].Qty = 240
    /\ line_df[2].Material = "X2" /\ line_df[2].Qty = 120

\* C20: every record after the first of a pass starts at the later of the
\* finish of the record before it and 06:00 of its own date; a record with a
\* speed finishes quantity / speed hours after its start; in Scenario A X1
\* runs 2026-01-10 07:00 to 2026-01-11 07:00 and X2 from then to 19:00.
C20_StartAndFinish ==
    /\ \A k \in 2..Len(time_starts) :
        /\ time_starts[k] >= time_finishes[k - 1]
        /\ time_starts[k] >= line_df[k].orig_date * 24 + 6
        /\ time_starts[k] \in {time_finishes[k - 1], line_df[k].orig_date * 24 + 6}
    /\ \A k \in 1..Len(time_starts) :
        LET o == OutRowOf(line_df[k])
        IN (o.Speed # None /\ o.Speed # Some(0)) =>
              (time_finishes[k] - time_starts[k]) * Val(o.Speed) = o.Qty
    /\ ScenarioA =>
        /\ time_starts = <<374 * 24 + 7, 375 * 24 + 7>>
        /\ time_finishes = <<375 * 24 + 7, 375 * 24 + 19>>

\* C20 witness: the pass of Scenario A is complete.
C20_Witness ==
    /\ pc = "schedule"
    /\ idx = 2
    /\ ScenarioA

\* The days between a finish on weekday w (Monday = 0) and its release.
DaysToRelease(w) == IF w = 0 THEN 7 ELSE IF w = 1 THEN 6 ELSE 5

\* C21: calc_release_time adds five days, two more when that is a Saturday
\* and one more when it is a Sunday, and keeps the time of day; the release
\* date of every returned slot is 7 days after a Monday finish, 6 after a
\* Tuesday finish and 5 after any other.
C21_ReleaseRule ==
    /\ \A d \in 393..399 : \A h \in {0, 19, 23} :
        LET ts == d * 24 + h
            plus5 == Weekday(d + 5)
        IN /\ calc_release_time(ts) =
                ts + 24 * (5 + (IF plus5 = 5 THEN 2 ELSE IF plus5 = 6 THEN 1 ELSE 0))
           /\ DateOf(calc_release_time(ts)) - d = DaysToRelease(Weekday(d))
    /\ \A df \in OutputLists \cup {WestSlots} : \A k \in 1..Len(df) :
        /\ df[k].ReleaseTime - DateOf(df[k].TimeFinish)
              = DaysToRelease(Weekday(DateOf(df[k].TimeFinish)))
        /\ df[k].ReleaseTime - DateOf(df[k].TimeFinish) \in {5, 6, 7}

\* C21 witness: a West sheet was returned with a slot finishing on a Monday,
\* released 7 days later, and a slot finishing on a Tuesday, released 6 days
\* later.
C21_Witness ==
    \E i, j \in 1..Len(WestSlots) :
        /\ Weekday(DateOf(WestSlots[i].TimeFinish)) = 0
        /\ WestSlots[i].ReleaseTime = DateOf(WestSlots[i].TimeFinish) + 7
        /\ Weekday(DateOf(WestSlots[j].TimeFinish)) = 1
        /\ WestSlots[j].ReleaseTime = DateOf(WestSlots[j].TimeFinish) + 6

\* The scheduled slot k of the pass is in the returned slots.
InOutput(k) ==
    \E df \in OutputLists : \E n \in 1..Len(df) :
        /\ df[n].Line = LineOf(line_df[k])
        /\ df[n].Material = line_df[k].Material
        /\ df[n].Kg_TU = line_df[k].Kg_TU
        /\ df[n].Date = MonYY(line_df[k].orig_date)
        /\ df[n].TimeStart = time_starts[k]
        /\ df[n].TimeFinish = time_finishes[k]

\* C22: a scheduled slot is returned exactly when the month number of its
\* timeFinish is in the month window, whatever its nominal date, the month
\* of its timeStart and the year of its timeFinish.
C22_FilterOnFinishMonth ==
    (LineFinished \/ SakFinished) =>
        \A k \in 1..Len(line_df) :
            InOutput(k) <=> MonthOf(time_finishes[k]) \in month_set

\* C22 witness: with the window {11, 12, 1}, a slot finishing in January
\* 2026 and one finishing in January 2027 are returned, and a slot of
\* 2027-01-31 that finishes in February is not.
C22_Witness ==
    /\ LineFinished
    /\ month_set = {11, 12, 1}
    /\ \E i, j, k \in 1..Len(line_df) :
        /\ YearOfDate(DateOf(time_finishes[i])) = 2026
        /\ YearOfDate(DateOf(time_finishes[j])) = 2027
        /\ InOutput(i)
        /\ InOutput(j)
        /\ MonthOfDate(line_df[k].orig_date) = 1
        /\ MonthOf(time_starts[k]) = 1
        /\ MonthOf(time_finishes[k]) = 2
        /\ ~InOutput(k)

\* The slots returned for the pass that has just ended.
CurrentOutput ==
    IF pc = "sak_done" THEN sak_result
    ELSE TimelineOf(line_dfs, unique_lines[li - 1])

\* C23: the slots returned for a pass carry the timeStart and timeFinish the
\* pass gave to their records, and every slot of the pass after the first
\* starts at the later of the previous slot's timeFinish and 06:00 of its
\* date, whether or not the previous slot was kept by the window.
C23_TimesFixedByPass ==
    (LineFinished \/ SakFinished) =>
        /\ \A n \in 1..Len(CurrentOutput) : \E k \in 1..Len(line_df) :
            /\ CurrentOutput[n].Material = line_df[k].Material
            /\ CurrentOutput[n].Kg_TU = line_df[k].Kg_TU
            /\ CurrentOutput[n].Date = MonYY(line_df[k].orig_date)
            /\ CurrentOutput[n].TimeStart = time_starts[k]
            /\ CurrentOutput[n].TimeFinish = time_finishes[k]
            /\ CurrentOutput[n].ReleaseTime =
                   DateOf(calc_release_time(time_finishes[k]))
        /\ \A k \in 2..Len(line_df) :
            time_starts[k] = Max(time_finishes[k - 1], DayFloor(line_df[k]))

\* C23 witness: a slot dropped by the window is followed by a returned slot
\* that starts at the dropped slot's timeFinish, later than 06:00 of its date.
C23_Witness ==
    /\ LineFinished
    /\ \E k \in 2..Len(line_df) :
        /\ ~InOutput(k - 1)
        /\ InOutput(k)
        /\ time_starts[k] = time_finishes[k - 1]
        /\ time_starts[k] > DayFloor(line_df[k])

\* A pass is under way: some slots are scheduled, none of them is filtered yet.
InPass == pc \in {"schedule", "sak_schedule"}

\* The pass has ended and its slots went through the window filter.
PassEnded == LineFinished \/ pc = "sak_done"

\* The slot k of the pass is in the returned slots with its release columns.
Annotated(k) ==
    \E n \in 1..Len(CurrentOutput) :
        /\ CurrentOutput[n].Material = line_df[k].Material
        /\ CurrentOutput[n].Kg_TU = line_df[k].Kg_TU
        /\ CurrentOutput[n].TimeStart = time_starts[k]
        /\ CurrentOutput[n].TimeFinish = time_finishes[k]
        /\ CurrentOutput[n].ReleaseTime = DateOf(calc_release_time(time_finishes[k]))
        /\ CurrentOutput[n].ReleaseIdent = rel_ident_fmt(CurrentOutput[n].ReleaseTime)

\* C24: while the pass of a line runs, its slots are scheduled one at a time
\* and none of them is returned; the pass always ends, and then every slot
\* whose timeFinish month is in the window is returned with its release
\* columns and no other slot of the pass is returned; slots once returned are
\* never changed or removed in the call that returned them.
C24_Lifecycle ==
    /\ [](pc = "schedule" =>
            \A k \in 1..Len(line_dfs) : line_dfs[k].line # unique_lines[li])
    /\ [](pc = "sak_schedule" => sak_result = <<>>)
    /\ [][InPass /\ InPass' =>
            /\ Len(time_starts') = Len(time_starts) + 1
            /\ \A k \in 1..Len(time_starts) :
                /\ time_starts'[k] = time_starts[k]
                /\ time_finishes'[k] = time_finishes[k]]_vars
    /\ [][pc' \notin {"start", "sak_start"} =>
            /\ Len(line_dfs') >= Len(line_dfs)
            /\ \A k \in 1..Len(line_dfs) : line_dfs'[k] = line_dfs[k]
            /\ sak_result # <<>> => sak_result' = sak_result]_vars
    /\ InPass ~>
          (/\ PassEnded
           /\ Len(time_starts) = Len(line_df)
           /\ \A k \in 1..Len(line_df) :
                IF MonthOf(time_finishes[k]) \in month_set
                THEN Annotated(k)
                ELSE ~InOutput(k) /\ ~Annotated(k))

\* C24 witness: a pass has ended with one slot returned with its release
\* columns and another dropped.
C24_Witness ==
    /\ PassEnded
    /\ \E i, j \in 1..Len(line_df) :
        /\ MonthOf(time_finishes[i]) \in month_set
        /\ Annotated(i)
        /\ MonthOf(time_finishes[j]) \notin month_set
        /\ ~InOutput(j)

\* The deduplicated eligible records the pass under way, or just ended, is on.
PassRecords ==
    IF pc \in {"sak_schedule", "sak_done"} THEN out
    ELSE OutOfLine(out, unique_lines[IF pc = "schedule" THEN li ELSE li - 1])

\* The row k of the pass is the record r: same line, date, material, unit
\* weight and quantity.
Carries(k, r) ==
    /\ LineOf(line_df[k]) = LineOf(r)
    /\ line_df[k].orig_date = r.Date
    /\ line_df[k].Material = r.Material
    /\ line_df[k].Kg_TU = r.Kg_TU
    /\ line_df[k].Qty = r.Qty

\* C25: the pass has one row per deduplicated eligible record of the line
\* and one row only, each with the record's line, date and material; it gives
\* one timeStart and timeFinish to each row it has passed, to all of them at
\* its end; and the returned slots are distinct slots of the pass.
C25_OneSlotPerRecord ==
    (InPass \/ LineFinished \/ SakFinished) =>
        /\ Len(line_df) = Len(PassRecords)
        /\ \A n \in 1..Len(PassRecords) :
            Cardinality({k \in 1..Len(line_df) : Carries(k, PassRecords[n])}) = 1
        /\ \A k \in 1..Len(line_df) :
            \E n \in 1..Len(PassRecords) : Carries(k, PassRecords[n])
        /\ Len(time_starts) = idx
        /\ Len(time_finishes) = idx
        /\ idx <= Len(line_df)
        /\ PassEnded =>
            /\ idx = Len(line_df)
            /\ \A n \in 1..Len(CurrentOutput) : \E k \in 1..Len(line_df) :
                /\ CurrentOutput[n].Line = LineOf(line_df[k])
                /\ CurrentOutput[n].Material = line_df[k].Material
                /\ CurrentOutput[n].Date = MonYY(line_df[k].orig_date)
                /\ CurrentOutput[n].Kg_TU = line_df[k].Kg_TU
                /\ CurrentOutput[n].Qty = line_df[k].Qty
                /\ CurrentOutput[n].TimeStart = time_starts[k]
            /\ Cardinality({k \in 1..Len(line_df) : InOutput(k)}) = Len(CurrentOutput)

\* C25 witness: a pass over three records or more has ended and fewer
\* slots, but at least two, were returned.
C25_Witness ==
    /\ LineFinished
    /\ Len(PassRecords) >= 3
    /\ Len(time_starts) = Len(PassRecords)
    /\ Len(CurrentOutput) >= 2
    /\ Len(CurrentOutput) < Len(line_df)

\* The values a normalized row was computed with: kg for Qty Bulk in KG,
\* speed for Prod Hour.
ComputedWith(r, kg, speed) ==
    /\ r.QtyBulk = IF NotNa(kg) THEN Some(r.Qty * Val(kg)) ELSE None
    /\ r.ProdHour = IF NotNa(speed) /\ Val(speed) # 0
                    THEN Some(r.Qty \div Val(speed)) ELSE None

SlotsSorted(df) == \A k \in 1..(Len(df) - 1) : df[k].TimeStart <= df[k + 1].TimeStart
SlotsDisjoint(df) ==
    \A i, j \in 1..Len(df) :
        i # j => ~Overlap(df[i].TimeStart, df[i].TimeFinish,
                          df[j].TimeStart, df[j].TimeFinish)

\* The slot lists a sheet's call has returned, and the exported lists.
Returned(dfs, sak) == {dfs[k].df : k \in 1..Len(dfs)} \cup {sak}
Exported(comb) == {comb[k].df : k \in 1..Len(comb)}

\* C27: when the slot lists of a sheet are added to the exported lists of the
\* sheets before it, and both are sorted by timeStart and free of overlaps,
\* the exported lists are still sorted by timeStart and free of overlaps.
C27_ExportSorted ==
    [][/\ combined' # combined
       /\ \A df \in Returned(line_dfs', sak_result') \cup Exported(combined) :
            SlotsSorted(df) /\ SlotsDisjoint(df)
       => \A df \in Exported(combined') : SlotsSorted(df) /\ SlotsDisjoint(df)]_vars

\* The normalized Sakatama records as East records of the line "A,B", in the
\* order of the East table.
AsEastRecords(rows) ==
    SortOut([k \in 1..Len(rows) |->
        [Material |-> rows[k].Material, Line |-> SAKATAMA_LINE,
         Kg_TU |-> rows[k].Kg_TU, Date |-> rows[k].Date, Qty |-> rows[k].Qty,
         kg_cb |-> rows[k].Kg_TU, Speed |-> rows[k].Speed,
         QtyBulk |-> rows[k].QtyBulk, ProdHour |-> rows[k].ProdHour]])

\* C28: the slot list the Sakatama scheduler returns is the one the East
\* per-line scheduler returns for the same records as the records of one
\* line, with the same month window and calendar: the same slots in the same
\* order with the same timeStart, timeFinish, release date, release week and
\* release identifier; and the two passes give the same times to every record.
C28_SameScheduler ==
    pc = "sak_done" /\ line_df # <<>> =>
        /\ sak_result = TimelineAlone(AsEastRecords(out), SAKATAMA_LINE, month_set, cal_map)
        /\ LET ld == LineRows(AsEastRecords(out), SAKATAMA_LINE)
               st == Stamp(ld, 0, <<>>, <<>>)
           IN /\ st.starts = time_starts
              /\ st.finishes = time_finishes
              /\ \A k \in 1..Len(ld) :
                    /\ ld[k].Material = line_df[k].Material
                    /\ ld[k].orig_date = line_df[k].orig_date

\* C28 witness: the Sakatama scheduler returned slots of two dates, the
\* second date led by the material that ended the first, and one slot
\* pushed past 06:00 of its date.
C28_Witness ==
    /\ pc = "sak_done"
    /\ Len(sak_result) >= 3
    /\ \E k \in 2..Len(line_df) :
        /\ line_df[k].orig_date # line_df[k - 1].orig_date
        /\ line_df[k].Material = line_df[k - 1].Material
        /\ line_df[k].Material = "X2"
        /\ time_starts[k] > DayFloor(line_df[k])

\* C29: when a pass has ended its slots are in non-decreasing timeStart
\* order, and the returned slots of the line are in the order in which the
\* pass processed them.
C29_PassOrderKept ==
    (LineFinished \/ SakFinished) =>
        /\ \A k \in 1..(Len(time_starts) - 1) : time_starts[k] <= time_starts[k + 1]
        /\ CurrentOutput =
             SelectSeq([k \in 1..Len(line_df) |->
                          [Line |-> LineOf(line_df[k]),
                           Date |-> MonYY(line_df[k].orig_date),
                           Material |-> line_df[k].Material,
                           Kg_TU |-> line_df[k].Kg_TU, Qty |-> line_df[k].Qty,
                           QtyBulk |-> line_df[k].QtyBulk,
                           TimeStart |-> time_starts[k],
                           TimeFinish |-> time_finishes[k],
                           ReleaseTime |-> DateOf(calc_release_time(time_finishes[k])),
                           ReleaseWeek |->
                               IF ReleaseDateOf(time_finishes[k]) \in DOMAIN cal_map
                               THEN Some(cal_map[ReleaseDateOf(time_finishes[k])])
                               ELSE None,
                           ReleaseIdent |->
                               rel_ident_fmt(DateOf(calc_release_time(time_finishes[k])))]],
                      LAMBDA s : MonthOf(s.TimeFinish) \in month_set)

\* C30: every slot of a pass finishes at or after its start.
C30_FinishNotBeforeStart ==
    \A k \in 1..Len(time_finishes) : time_finishes[k] >= time_starts[k]
====
